---- MODULE Spec2Model ----
(***************************************************************************)
(* The ingestion pipeline of src/services/ragBuilder.ts (class RAGBuilder) *)
(* over the shared connection module src/config/database.ts.               *)
(*                                                                         *)
(* One action is the code that runs between two suspension points (await)  *)
(* of a call: the JavaScript run-to-completion step.  The collaborators    *)
(* (MongoDB driver and server, OpenAI embeddings) answer every request     *)
(* either by resolving or by rejecting it.                                 *)
(***************************************************************************)
EXTENDS Integers, Sequences, FiniteSets, TLC

VARIABLES
  db,         \* database.ts:10   let db: Db | null
  client,     \* database.ts:11   let client: MongoClient | null
  clients,    \* number of MongoClient objects constructed so far (database.ts:57)
  connected,  \* the MongoClient objects whose connect() has resolved
  indexes,    \* names of the indexes of the collection (server state)
  store,      \* the documents of the collection (server state)
  nextUuid,   \* the next unused value of randomUUID()
  nextOid,    \* the next unused ObjectId of the driver's pkFactory
  budget,     \* what the behaviour may still do: calls to make, faults to meet,
              \* and the number of leading units of a call whose embedding may fail
  cleaned,    \* the owners cleaned up and not written for since
  call,       \* per caller: the locals of its running call
  hist,       \* per caller: what its running call has asked of the collaborators
  tk          \* tokenizer.ts: the arguments and the result of a tokenizer call

vars == <<db, client, clients, connected, indexes, store, nextUuid, nextOid,
          budget, cleaned, call, hist, tk>>

----------------------------------------------------------------------------
(* Bounds of the model *)

MaxTexts == 3        \* longest list of the short inputs
MaxLong == 250       \* longest list of the long inputs
MaxFaults == 1       \* collaborator faults per behaviour, short inputs
MaxBatchFaults == 1  \* collaborator faults per behaviour, long inputs
MaxBatchFlaky == 2   \* leading units of a call whose embedding may fail, long inputs
MaxCleanups == 1     \* cleanupByUid calls per behaviour, short inputs
MaxOwnerCleanups == 2  \* cleanupByUid calls per behaviour, several owners
MaxOwnerFaults == 2  \* collaborator faults per behaviour, several owners
MaxBatchCleanups == 1  \* cleanupByUid calls per behaviour, long inputs
MaxCollisions == 1   \* randomUUID() values that repeat a stored one, per behaviour

----------------------------------------------------------------------------
(* Values *)

NULL == 0
NoUid == "undefined"
NoPath == "undefined"

\* The files of the file system, by path, with their content: two paragraphs
\* between blank lines, and white space only.  Any other path does not exist.
Files ==
  [p \in {"kb.txt", "blank.txt"} |->
     IF p = "kb.txt" THEN <<"a", "\n", " ", "\n", " ", "b", "\n">> ELSE <<" ", "\n", "\n">>]

Paths == DOMAIN Files \cup {"missing.txt"}

Callers == {1, 2}

\* ragBuilder.ts:161  documents.length >= 100
BatchSize == 100

\* ragBuilder.ts:83-97, in the order getCollection tests them
IndexOrder == <<"uuid_1", "uid_1", "created_at_-1", "uid_1_created_at_-1">>

IndexCount == Len(IndexOrder)

\* the index every collection has
IdIndex == "_id_"

AllIndexes == {IdIndex} \cup {IndexOrder[k] : k \in 1..IndexCount}

\* A text is a sequence of characters; " " and "\n" are the whitespace
\* characters (the class \s of the regular expressions and of trim)
IsWhitespace(ch) == ch \in {" ", "\n"}

RECURSIVE TrimStart(_)
TrimStart(s) ==
  IF s = <<>> THEN s
  ELSE IF IsWhitespace(Head(s)) THEN TrimStart(Tail(s)) ELSE s

RECURSIVE TrimEnd(_)
TrimEnd(s) ==
  IF s = <<>> THEN s
  ELSE IF IsWhitespace(s[Len(s)]) THEN TrimEnd(SubSeq(s, 1, Len(s) - 1)) ELSE s

\* String.prototype.trim
Trim(s) == TrimEnd(TrimStart(s))

IsValidText(t) == Len(Trim(t)) > 0

\* as ValidTexts without the filter
ValidTextsUnfiltered(texts) == texts

\* ragBuilder.ts:129  texts.filter((text) => text.trim().length > 0)
ValidTexts(texts) == SelectSeq(texts, IsValidText)

----------------------------------------------------------------------------
(* tokenizer.ts: the tokenizers.  A token, a sentence, a paragraph and a    *)
(* chunk are sequences of characters like a text.                          *)

\* the greatest of a non-empty set of numbers
Greatest(S) == CHOOSE m \in S : \A x \in S : x <= m

\* \s+ matched at position i of s: the position of the last character of the
\* run of whitespace that starts there
RunEnd(s, i) ==
  Greatest({j \in i..Len(s) : \A k \in i..j : IsWhitespace(s[k])})

\* Array.prototype.join(''): the tokens one after the other
RECURSIVE formatWords(_)
formatWords(words) ==
  IF words = <<>> THEN <<>> ELSE Head(words) \o formatWords(Tail(words))

\* text.split(/(\s+)/) from position i on, piece being the characters since
\* the last separator: the pieces between the runs of whitespace and, for the
\* capturing group, the runs themselves
RECURSIVE SplitKeepingWhitespace(_, _, _)
SplitKeepingWhitespace(s, i, piece) ==
  IF i > Len(s) THEN <<piece>>
  ELSE IF IsWhitespace(s[i])
  THEN <<piece, SubSeq(s, i, RunEnd(s, i))>>
         \o SplitKeepingWhitespace(s, RunEnd(s, i) + 1, <<>>)
  ELSE SplitKeepingWhitespace(s, i + 1, Append(piece, s[i]))

\* text.split(/\s+/) from position i on: the pieces only
RECURSIVE SplitOnWhitespace(_, _, _)
SplitOnWhitespace(s, i, piece) ==
  IF i > Len(s) THEN <<piece>>
  ELSE IF IsWhitespace(s[i])
  THEN <<piece>> \o SplitOnWhitespace(s, RunEnd(s, i) + 1, <<>>)
  ELSE SplitOnWhitespace(s, i + 1, Append(piece, s[i]))

NonEmpty(x) == Len(x) > 0

\* tokenizer.ts:26-28: BasicWordTokenizer(true).tokenize, the policy that
\* discards the whitespace
WordTokenizeCollapsing(text) == SelectSeq(SplitOnWhitespace(text, 1, <<>>), NonEmpty)

\* tokenizer.ts:25-32: BasicWordTokenizer(false).tokenize, the default policy
WordTokenize(text) == SelectSeq(SplitKeepingWhitespace(text, 1, <<>>), NonEmpty)

\* tokenizer.ts:45  [.!?]
IsTerminal(ch) == ch \in {".", "!", "?"}

\* text.split(/(?<=[.!?])\s+/) from position i on, the current piece starting
\* at position start: a separator is a run of whitespace that follows a
\* terminal character
RECURSIVE SplitSentences(_, _, _)
SplitSentences(s, i, start) ==
  IF i > Len(s) THEN <<SubSeq(s, start, Len(s))>>
  ELSE IF i > 1 /\ IsTerminal(s[i - 1]) /\ IsWhitespace(s[i])
  THEN <<SubSeq(s, start, i - 1)>>
         \o SplitSentences(s, RunEnd(s, i) + 1, RunEnd(s, i) + 1)
  ELSE SplitSentences(s, i + 1, start)

\* tokenizer.ts:43-48: BasicSentenceTokenizer.tokenize
SentenceTokenize(text) == SelectSeq(SplitSentences(text, 1, 1), IsValidText)

\* as BlankLinesEnd for the expression /\n/: a split at every newline
NewlineEnd(s, i) == IF s[i] = "\n" THEN i ELSE 0

\* /\n\s*\n/ matched at position i of s: the position of the last character
\* of the match (\s* is greedy, so the last newline of the run of whitespace),
\* 0 when there is no match at i
BlankLinesEnd(s, i) ==
  LET ends == {q \in (i + 1)..Len(s) :
                 s[q] = "\n" /\ \A k \in (i + 1)..(q - 1) : IsWhitespace(s[k])}
  IN IF s[i] = "\n" /\ ends # {} THEN Greatest(ends) ELSE 0

\* text.split(/\n\s*\n/) from position i on, the current piece starting at
\* position start
RECURSIVE SplitParagraphs(_, _, _)
SplitParagraphs(s, i, start) ==
  IF i > Len(s) THEN <<SubSeq(s, start, Len(s))>>
  ELSE IF BlankLinesEnd(s, i) > 0
  THEN <<SubSeq(s, start, i - 1)>>
         \o SplitParagraphs(s, BlankLinesEnd(s, i) + 1, BlankLinesEnd(s, i) + 1)
  ELSE SplitParagraphs(s, i + 1, start)

\* tokenizer.ts:54-59
tokenizeParagraphs(text) ==
  LET paragraphs == SplitParagraphs(text, 1, 1)
  IN SelectSeq([k \in DOMAIN paragraphs |-> Trim(paragraphs[k])], NonEmpty)

\* the words of a paragraph: tokenizer.ts:94-95, the words of its sentences
\* one sentence after the other
RECURSIVE SentencesWords(_)
SentencesWords(sentences) ==
  IF sentences = <<>> THEN <<>>
  ELSE WordTokenize(Head(sentences)) \o SentencesWords(Tail(sentences))

ParagraphWords(paragraph) == SentencesWords(SentenceTokenize(paragraph))

\* as TrimOverlap without the while statement
KeepOverlap(lastBufWords, chunkOverlap) == lastBufWords

\* tokenizer.ts:99-101 and 114-116: words leave the front of lastBufWords
\* until what remains is no longer than chunkOverlap
RECURSIVE TrimOverlap(_, _)
TrimOverlap(lastBufWords, chunkOverlap) ==
  IF Len(formatWords(lastBufWords)) > chunkOverlap
  THEN TrimOverlap(Tail(lastBufWords), chunkOverlap)
  ELSE lastBufWords

\* as ExceedsMax with one character of slack
ExceedsMaxLoose(bufWords, word, maxChunkSize) ==
  Len(formatWords(Append(bufWords, word))) > maxChunkSize + 1

\* as ExceedsMax with the buffer measured without the word
ExceedsMaxAfter(bufWords, word, maxChunkSize) ==
  Len(formatWords(bufWords)) > maxChunkSize

\* tokenizer.ts:96-98
ExceedsMax(bufWords, word, maxChunkSize) ==
  Len(formatWords(Append(bufWords, word))) > maxChunkSize

\* as PushWord with the size test in place of the push: a word that causes a
\* flush is not buffered
PushWordUnlessFlushed(bufWords, word, flushed) ==
  IF flushed THEN bufWords ELSE Append(bufWords, word)

\* tokenizer.ts:109  bufWords.push(word), whether or not the buffer was flushed
PushWord(bufWords, word, flushed) == Append(bufWords, word)

\* The state of chunk(): the chunks pushed, bufWords and lastBufWords.  A chunk
\* is kept as its two parts, the words taken from lastBufWords (carry) and
\* the words of bufWords (pending), with the number of its paragraph; the
\* string pushed is ChunkText.
ChunkStart == [chunks |-> <<>>, bufWords |-> <<>>, lastBufWords |-> <<>>]

\* tokenizer.ts:103 and 118
ChunkText(ch) == formatWords(ch.carry \o ch.pending)

\* tokenizer.ts:96-109: one word of paragraph p
WordStep(st, word, p, maxChunkSize, chunkOverlap) ==
  LET flushed == ExceedsMax(st.bufWords, word, maxChunkSize)
      carry == TrimOverlap(st.lastBufWords, chunkOverlap)
      st1 == IF flushed
             THEN [chunks |-> Append(st.chunks, [carry |-> carry, pending |-> st.bufWords,
                                                 paragraph |-> p]),
                   bufWords |-> <<>>,
                   lastBufWords |-> st.bufWords]
             ELSE st
  IN [st1 EXCEPT !.bufWords = PushWord(@, word, flushed)]

\* tokenizer.ts:94-111: the words of paragraph p in order
RECURSIVE WordsStep(_, _, _, _, _)
WordsStep(st, words, p, maxChunkSize, chunkOverlap) ==
  IF words = <<>> THEN st
  ELSE WordsStep(WordStep(st, Head(words), p, maxChunkSize, chunkOverlap),
                 Tail(words), p, maxChunkSize, chunkOverlap)

\* as ParagraphEnd without lines 113-121: the buffer goes on into the next
\* paragraph
ParagraphEndKeeping(st, p, chunkOverlap) == st

\* tokenizer.ts:113-121: the end of paragraph p
ParagraphEnd(st, p, chunkOverlap) ==
  IF Len(st.bufWords) > 0
  THEN [chunks |-> Append(st.chunks, [carry |-> TrimOverlap(st.lastBufWords, chunkOverlap),
                                      pending |-> st.bufWords, paragraph |-> p]),
        bufWords |-> <<>>,
        lastBufWords |-> TrimOverlap(st.lastBufWords, chunkOverlap)]
  ELSE st

\* tokenizer.ts:91-122: the paragraphs from the p-th on; lastBufWords starts
\* empty in every paragraph
RECURSIVE ParagraphsStep(_, _, _, _, _)
ParagraphsStep(st, paragraphs, p, maxChunkSize, chunkOverlap) ==
  IF p > Len(paragraphs) THEN st
  ELSE ParagraphsStep(
         ParagraphEnd(WordsStep([st EXCEPT !.lastBufWords = <<>>], ParagraphWords(paragraphs[p]),
                                p, maxChunkSize, chunkOverlap),
                      p, chunkOverlap),
         paragraphs, p + 1, maxChunkSize, chunkOverlap)

\* tokenizer.ts:87-125: SentenceChunker.chunk with the default tokenizers
chunk(text, maxChunkSize, chunkOverlap) ==
  ParagraphsStep(ChunkStart, tokenizeParagraphs(text), 1, maxChunkSize, chunkOverlap).chunks

----------------------------------------------------------------------------
(* Documents and the collection *)

\* ragBuilder.ts:143  ...(this.uid && { uid: this.uid }): an undefined or empty
\* uid leaves the document without the field
DocumentUid(uid) == IF uid = NoUid \/ uid = "" THEN NoUid ELSE uid

\* ragBuilder.ts:141-152; oid is the _id field, absent until the driver sets it
NewDocument(uuid, uid, text, idx) ==
  [oid |-> NULL, uuid |-> uuid, uid |-> DocumentUid(uid), content |-> text, index |-> idx]

\* The documents the collection holds before the program starts: one of
\* owner-1, one of owner-2, one without owner.
InitStore ==
  { [oid |-> 1, uuid |-> 1, uid |-> "owner-1", content |-> <<"a">>, index |-> 0],
    [oid |-> 2, uuid |-> 2, uid |-> "owner-2", content |-> <<"b">>, index |-> 0],
    [oid |-> 3, uuid |-> 3, uid |-> NoUid, content |-> <<"a">>, index |-> 1] }

InitIds == Cardinality(InitStore)

\* insertMany sets _id on every document that has none, in place
AssignIds(docs, n) ==
  [i \in DOMAIN docs |-> IF docs[i].oid = NULL THEN [docs[i] EXCEPT !.oid = n + i] ELSE docs[i]]

\* insertMany(docs, { ordered: false }): every document is tried, a refused
\* one does not stop the others.  The server refuses a document whose _id is
\* in the collection and, under the unique index, one whose uuid is in the
\* collection or on an earlier document of the batch
InsertUnordered(docs, st, unique) ==
  LET oids == {r.oid : r \in st}
      uuids == IF unique THEN {r.uuid : r \in st} ELSE {}
      repeats == unique /\ Cardinality({docs[i].uuid : i \in DOMAIN docs}) < Len(docs)
      Refused(k) ==
        \/ docs[k].oid \in oids
        \/ docs[k].uuid \in uuids
        \/ repeats /\ \E j \in 1..(k - 1) : docs[j].uuid = docs[k].uuid
  IN st \cup {docs[k] : k \in {i \in DOMAIN docs : ~Refused(i)}}

Written(docs) == InsertUnordered(docs, store, "uuid_1" \in indexes)

\* as Matching with the filter dropped: deleteMany({})
MatchingAny(st, uid) == st

\* as Matching with documents without uid matched too
MatchingOrAbsent(st, uid) == {r \in st : r.uid = uid \/ r.uid = NoUid}

\* deleteMany({ uid }): the documents the filter matches
Matching(st, uid) == {r \in st : r.uid = uid}

HasDuplicateUuid(st) == \E r1, r2 \in st : r1 # r2 /\ r1.uuid = r2.uuid

\* createIndex({ uuid: 1 }, { unique: true }) fails on a collection with duplicates
CanCreate(name) == name = "uuid_1" => ~HasDuplicateUuid(store)

\* as FirstMissing without the tests of indexNames.includes: every index is
\* created at every bootstrap
FirstUnconditional(names, k) == IF k <= IndexCount THEN k ELSE IndexCount + 1

\* ragBuilder.ts:83-97: the first index at or after position k whose name the
\* listing lacks, IndexCount + 1 when there is none
FirstMissing(names, k) ==
  IF \E j \in k..IndexCount : IndexOrder[j] \notin names
  THEN CHOOSE j \in k..IndexCount :
         /\ IndexOrder[j] \notin names
         /\ \A i \in k..(j - 1) : IndexOrder[i] \in names
  ELSE IndexCount + 1

----------------------------------------------------------------------------
(* The state after construction *)

IdleCall ==
  [pc |-> "idle", op |-> "none", uid |-> NoUid, texts |-> <<>>, validTexts |-> <<>>,
   idx |-> 0, documents |-> <<>>, conn |-> NULL, collection |-> NULL,
   indexNames |-> {}, ixPos |-> 0, outcome |-> "none", result |-> 0, path |-> NoPath]

NoHist ==
  [reqLog |-> <<>>, inflight |-> {}, failed |-> {}, batches |-> <<>>, submitted |-> {},
   resubmitted |-> {}, accepted |-> {}, insertErrors |-> 0,
   creates |-> <<>>, indexErrors |-> 0, foreign |-> {}, swept |-> {}]

\* no tokenizer call
NoTk ==
  [pc |-> "none", text |-> <<>>, maxChunkSize |-> 0, chunkOverlap |-> 0,
   words |-> <<>>, result |-> <<>>]

InitPipeline(b, ixs) ==
  /\ db = NULL
  /\ client = NULL
  /\ clients = 0
  /\ connected = {}
  /\ indexes \in ixs
  /\ store = InitStore
  /\ nextUuid = InitIds + 1
  /\ nextOid = InitIds + 1
  /\ budget = b
  /\ cleaned = {}
  /\ call = [p \in Callers |-> IdleCall]
  /\ hist = [p \in Callers |-> NoHist]

InitWith(b, ixs) ==
  /\ InitPipeline(b, ixs)
  /\ tk = NoTk

----------------------------------------------------------------------------
(* Steps of a call that touch its locals only *)

Raised(cr) == [cr EXCEPT !.pc = "done", !.outcome = "raised"]

Returned(cr) == [cr EXCEPT !.pc = "done", !.outcome = "returned"]

\* collection.insertMany(documents, { ordered: false }) is called: ragBuilder.ts:162, 172
Submit(cr, h, docs, pc) ==
  [cr |-> [cr EXCEPT !.pc = pc, !.documents = AssignIds(docs, nextOid)],
   h |-> [h EXCEPT !.batches = Append(@, Len(docs)),
                   !.submitted = @ \cup {docs[i].index : i \in DOMAIN docs},
                   !.resubmitted = @ \cup {docs[i].index : i \in {k \in DOMAIN docs : docs[k].oid # NULL}}],
   oid |-> nextOid + Len(docs)]

\* as Advance with the requests not awaited one by one: the request for unit
\* j + 1 leaves together with the request for unit j
AdvanceFanOut(cr, h, j, docs) ==
  IF j < Len(cr.validTexts)
  THEN [cr |-> [cr EXCEPT !.pc = "awaitEmbed", !.idx = j, !.documents = docs],
        h |-> [h EXCEPT !.reqLog = Append(Append(@, j), j + 1), !.inflight = @ \cup {j, j + 1}],
        oid |-> nextOid]
  ELSE IF Len(docs) > 0
  THEN Submit([cr EXCEPT !.idx = j], h, docs, "awaitInsertFinal")
  ELSE [cr |-> Returned([cr EXCEPT !.idx = j, !.documents = docs]), h |-> h, oid |-> nextOid]

\* as Advance without the test of line 171: the last insertMany is called
\* with whatever the buffer holds
AdvanceFinalAlways(cr, h, j, docs) ==
  IF j < Len(cr.validTexts)
  THEN [cr |-> [cr EXCEPT !.pc = "awaitEmbed", !.idx = j, !.documents = docs],
        h |-> [h EXCEPT !.reqLog = Append(@, j), !.inflight = @ \cup {j}],
        oid |-> nextOid]
  ELSE Submit([cr EXCEPT !.idx = j], h, docs, "awaitInsertFinal")

\* ragBuilder.ts:135-173: the for statement reaches index j with the buffer docs:
\* the next embedding request, or after the loop the last insert, or the return
Advance(cr, h, j, docs) ==
  IF j < Len(cr.validTexts)
  THEN [cr |-> [cr EXCEPT !.pc = "awaitEmbed", !.idx = j, !.documents = docs],
        h |-> [h EXCEPT !.reqLog = Append(@, j), !.inflight = @ \cup {j}],
        oid |-> nextOid]
  ELSE IF Len(docs) > 0
  THEN Submit([cr EXCEPT !.idx = j], h, docs, "awaitInsertFinal")
  ELSE [cr |-> Returned([cr EXCEPT !.idx = j, !.documents = docs]), h |-> h, oid |-> nextOid]

\* getCollection has returned: ragBuilder.ts:122-136 and 198-199
Proceed(cr, h) ==
  IF cr.op = "build"
  THEN Advance([cr EXCEPT !.validTexts = ValidTexts(cr.texts)], h, 0, <<>>)
  ELSE [cr |-> [cr EXCEPT !.pc = "awaitDelete"], h |-> h, oid |-> nextOid]

\* ragBuilder.ts:83-97 from position k on, under the listing cr.indexNames
EnsureIndexes(cr, h, k) ==
  IF FirstMissing(cr.indexNames, k) <= IndexCount
  THEN [cr |-> [cr EXCEPT !.pc = "awaitCreateIndex", !.ixPos = FirstMissing(cr.indexNames, k)],
        h |-> [h EXCEPT !.creates = Append(@, IndexOrder[FirstMissing(cr.indexNames, k)])],
        oid |-> nextOid]
  ELSE Proceed(cr, h)

\* as DocumentIndex with the position in the buffer for the loop index
DocumentIndexInBuffer(cr) == Len(cr.documents)

\* ragBuilder.ts:148  index: idx
DocumentIndex(cr) == cr.idx

\* as ShouldFlush with a threshold of one document
FlushAlways(docs) == Len(docs) >= 1

\* ragBuilder.ts:161
ShouldFlush(docs) == Len(docs) >= BatchSize

Apply(c, r) ==
  /\ call' = [call EXCEPT ![c] = r.cr]
  /\ hist' = [hist EXCEPT ![c] = r.h]
  /\ nextOid' = r.oid

\* What the calls in flight of the other callers have had done to the
\* collection under them: the _id of the documents c wrote (foreign) and the
\* uid c deleted for (swept).  No lock, queue or transaction in
\* ragBuilder.ts keeps a write of one call from falling inside another call
InFlight(cr) == cr.pc \notin {"idle", "done"}

Witnessed(h, c, written, uids) ==
  [d \in Callers |->
     IF d # c /\ InFlight(call[d])
     THEN [h[d] EXCEPT !.foreign = @ \cup {r.oid : r \in written}, !.swept = @ \cup uids]
     ELSE h[d]]

\* as Apply for a step of c that wrote documents
ApplyWrite(c, r, written) ==
  /\ call' = [call EXCEPT ![c] = r.cr]
  /\ hist' = Witnessed([hist EXCEPT ![c] = r.h], c, written, {})
  /\ nextOid' = r.oid

----------------------------------------------------------------------------
(* database.ts: connectToDatabase *)

\* database.ts:50-58 as run by caller c up to its first await, entered from
\* getCollection (ragBuilder.ts:73) with the call's locals cr
EnterGetCollection(c, cr) ==
  IF db # NULL
  THEN /\ call' = [call EXCEPT ![c] = [cr EXCEPT !.pc = "awaitDb"]]
       /\ UNCHANGED <<client, clients>>
  ELSE /\ client' = clients + 1
       /\ clients' = clients + 1
       /\ call' = [call EXCEPT ![c] = [cr EXCEPT !.pc = "awaitConnect", !.conn = clients + 1]]

\* database.ts:58-63: client.connect() resolved; db is taken from the module's
\* client as it is now (a TypeError when it is null, rethrown at line 66)
ConnectResolved(c) ==
  /\ call[c].pc = "awaitConnect"
  /\ connected' = connected \cup {call[c].conn}
  /\ IF client = NULL
     THEN /\ call' = [call EXCEPT ![c] = Raised(@)]
          /\ db' = db
     ELSE /\ db' = client
          /\ call' = [call EXCEPT ![c].pc = "awaitDb"]
  /\ UNCHANGED <<tk, cleaned, client, clients, indexes, store, nextUuid, nextOid,
                 budget, hist>>

\* as ConnectRejected with the error swallowed: the call goes on without a connection
ConnectRejectedIgnored(c) ==
  /\ call[c].pc = "awaitConnect"
  /\ budget.faults > 0
  /\ budget' = [budget EXCEPT !.faults = @ - 1]
  /\ call' = [call EXCEPT ![c].pc = "awaitDb"]
  /\ UNCHANGED <<tk, cleaned, db, client, clients, connected, indexes, store, nextUuid, nextOid, hist>>

\* database.ts:64-67: client.connect() rejected; the error reaches the caller of
\* buildFromTexts or cleanupByUid
ConnectRejected(c) ==
  /\ call[c].pc = "awaitConnect"
  /\ budget.faults > 0
  /\ budget' = [budget EXCEPT !.faults = @ - 1]
  /\ call' = [call EXCEPT ![c] = Raised(@)]
  /\ UNCHANGED <<tk, cleaned, db, client, clients, connected, indexes, store, nextUuid, nextOid, hist>>

----------------------------------------------------------------------------
(* ragBuilder.ts: getCollection *)

\* as GetCollectionResume with the bootstrap made once: a collection that
\* has an index besides _id_ is returned as it is
GetCollectionResumeOnce(c) ==
  /\ call[c].pc = "awaitDb"
  /\ IF client = NULL
     THEN /\ call' = [call EXCEPT ![c] = Raised(@)]
          /\ UNCHANGED <<hist, nextOid>>
     ELSE IF indexes # {IdIndex}
     THEN Apply(c, Proceed([call[c] EXCEPT !.collection = client], hist[c]))
     ELSE /\ call' = [call EXCEPT ![c] = [@ EXCEPT !.pc = "awaitListIndexes",
                                                   !.collection = client]]
          /\ UNCHANGED <<hist, nextOid>>
  /\ UNCHANGED <<tk, cleaned, db, client, clients, connected, indexes, store, nextUuid, budget>>

\* ragBuilder.ts:73-80: connectToDatabase() has returned; getClient (database.ts:82-88)
\* throws without a client, else listIndexes is requested
GetCollectionResume(c) ==
  /\ call[c].pc = "awaitDb"
  /\ call' = [call EXCEPT ![c] =
                IF client = NULL THEN Raised(@)
                ELSE [@ EXCEPT !.pc = "awaitListIndexes", !.collection = client]]
  /\ UNCHANGED <<tk, cleaned, db, client, clients, connected, indexes, store, nextUuid, nextOid,
                 budget, hist>>

\* ragBuilder.ts:80-97: the listing arrived
ListIndexesResolved(c) ==
  /\ call[c].pc = "awaitListIndexes"
  /\ Apply(c, EnsureIndexes([call[c] EXCEPT !.indexNames = indexes], hist[c], 1))
  /\ UNCHANGED <<tk, cleaned, db, client, clients, connected, indexes, store, nextUuid,
                 budget>>

\* as ListIndexesRejected without the try block: the error leaves getCollection
ListIndexesRejectedRaises(c) ==
  /\ call[c].pc = "awaitListIndexes"
  /\ budget.faults > 0
  /\ budget' = [budget EXCEPT !.faults = @ - 1]
  /\ call' = [call EXCEPT ![c] = Raised(@)]
  /\ hist' = [hist EXCEPT ![c].indexErrors = @ + 1]
  /\ UNCHANGED <<tk, cleaned, db, client, clients, connected, indexes, store, nextUuid, nextOid>>

\* ragBuilder.ts:98-102: listIndexes failed; warn and return the collection
ListIndexesRejected(c) ==
  /\ call[c].pc = "awaitListIndexes"
  /\ budget.faults > 0
  /\ budget' = [budget EXCEPT !.faults = @ - 1]
  /\ Apply(c, Proceed(call[c], [hist[c] EXCEPT !.indexErrors = @ + 1]))
  /\ UNCHANGED <<tk, cleaned, db, client, clients, connected, indexes, store, nextUuid>>

\* ragBuilder.ts:84-97: createIndex resolved; on to the next missing name
CreateIndexResolved(c) ==
  /\ call[c].pc = "awaitCreateIndex"
  /\ CanCreate(IndexOrder[call[c].ixPos])
  /\ indexes' = indexes \cup {IndexOrder[call[c].ixPos]}
  /\ Apply(c, EnsureIndexes(call[c], hist[c], call[c].ixPos + 1))
  /\ UNCHANGED <<tk, cleaned, db, client, clients, connected, store, nextUuid,
                 budget>>

\* ragBuilder.ts:98-102: createIndex failed (refused by the server, or a fault);
\* warn, skip the remaining indexes and return the collection
CreateIndexRejected(c) ==
  /\ call[c].pc = "awaitCreateIndex"
  /\ \E fault \in (IF CanCreate(IndexOrder[call[c].ixPos]) THEN {} ELSE {FALSE})
                  \cup (IF budget.faults > 0 THEN {TRUE} ELSE {}) :
       budget' = IF fault THEN [budget EXCEPT !.faults = @ - 1] ELSE budget
  /\ Apply(c, Proceed(call[c], [hist[c] EXCEPT !.indexErrors = @ + 1]))
  /\ UNCHANGED <<tk, cleaned, db, client, clients, connected, indexes, store, nextUuid>>

----------------------------------------------------------------------------
(* ragBuilder.ts: buildFromTexts *)

\* ragBuilder.ts:121-122: buildFromTexts(texts) on a builder whose uid option is uid
CallBuildFromTexts(c, texts, uid) ==
  /\ call[c].pc \in {"idle", "done"}
  /\ budget.builds > 0
  /\ budget' = [budget EXCEPT !.builds = @ - 1]
  /\ EnterGetCollection(c, [IdleCall EXCEPT !.op = "build", !.uid = uid, !.texts = texts])
  /\ hist' = [hist EXCEPT ![c] = NoHist]
  /\ UNCHANGED <<tk, cleaned, db, connected, indexes, store, nextUuid, nextOid>>

\* the values randomUUID() (ragBuilder.ts:142) can return: an unused one, or
\* one a stored document already carries
CollidingUuids == {r.uuid : r \in {x \in InitStore : x.uid = "owner-1"}}

RandomUUIDs == {nextUuid} \cup (IF budget.collisions > 0 THEN CollidingUuids ELSE {})

\* ragBuilder.ts:139-164: the embedding arrived; the document is assembled and
\* buffered, and the buffer is flushed when it is full
EmbeddingResolved(c) ==
  /\ call[c].pc = "awaitEmbed"
  /\ \E u \in RandomUUIDs :
       /\ nextUuid' = IF u = nextUuid THEN nextUuid + 1 ELSE nextUuid
       /\ budget' = IF u = nextUuid THEN budget ELSE [budget EXCEPT !.collisions = @ - 1]
       /\ LET cr == call[c]
              docs == Append(cr.documents,
                             NewDocument(u, cr.uid, cr.validTexts[cr.idx + 1], DocumentIndex(cr)))
              h == [hist[c] EXCEPT !.inflight = @ \ {cr.idx}]
          IN Apply(c, IF ShouldFlush(docs)
                      THEN Submit(cr, h, docs, "awaitInsertMid")
                      ELSE Advance(cr, h, cr.idx + 1, docs))
  /\ UNCHANGED <<tk, cleaned, db, client, clients, connected, indexes, store>>

\* as EmbeddingRejected without the try block: the error leaves buildFromTexts
EmbeddingRejectedRaises(c) ==
  /\ call[c].pc = "awaitEmbed"
  /\ call[c].idx < budget.flaky
  /\ budget.faults > 0
  /\ budget' = [budget EXCEPT !.faults = @ - 1]
  /\ call' = [call EXCEPT ![c] = Raised(@)]
  /\ hist' = [hist EXCEPT ![c] = [@ EXCEPT !.failed = @ \cup {call[c].idx},
                                          !.inflight = @ \ {call[c].idx}]]
  /\ UNCHANGED <<tk, cleaned, db, client, clients, connected, indexes, store, nextUuid, nextOid>>

\* as EmbeddingRejected with the document of the unit buffered all the same
EmbeddingRejectedBuffers(c) ==
  /\ call[c].pc = "awaitEmbed"
  /\ call[c].idx < budget.flaky
  /\ budget.faults > 0
  /\ budget' = [budget EXCEPT !.faults = @ - 1]
  /\ nextUuid' = nextUuid + 1
  /\ Apply(c, Advance(call[c], [hist[c] EXCEPT !.failed = @ \cup {call[c].idx},
                                               !.inflight = @ \ {call[c].idx}],
                      call[c].idx + 1,
                      Append(call[c].documents,
                             NewDocument(nextUuid, call[c].uid,
                                         call[c].validTexts[call[c].idx + 1], call[c].idx))))
  /\ UNCHANGED <<tk, cleaned, db, client, clients, connected, indexes, store>>

\* ragBuilder.ts:165-167: the embedding request failed; log and go on with the
\* next unit
EmbeddingRejected(c) ==
  /\ call[c].pc = "awaitEmbed"
  /\ call[c].idx < budget.flaky
  /\ budget.faults > 0
  /\ budget' = [budget EXCEPT !.faults = @ - 1]
  /\ Apply(c, Advance(call[c], [hist[c] EXCEPT !.failed = @ \cup {call[c].idx},
                                               !.inflight = @ \ {call[c].idx}],
                      call[c].idx + 1, call[c].documents))
  /\ UNCHANGED <<tk, cleaned, db, client, clients, connected, indexes, store, nextUuid>>

\* the units whose documents an insertMany wrote
AcceptedOf(written) == {r.index : r \in written}

\* ragBuilder.ts:162-164 and 172-173: insertMany resolved, every document written
InsertManyResolved(c) ==
  /\ call[c].pc \in {"awaitInsertMid", "awaitInsertFinal"}
  /\ LET cr == call[c]
         written == Written(cr.documents)
         h == [hist[c] EXCEPT !.accepted = @ \cup AcceptedOf(written \ store)]
     IN /\ Cardinality(written \ store) = Len(cr.documents)
        /\ store' = written
        /\ ApplyWrite(c, IF cr.pc = "awaitInsertMid"
                         THEN Advance(cr, h, cr.idx + 1, <<>>)
                         ELSE [cr |-> Returned(cr), h |-> h, oid |-> nextOid],
                      written \ store)
  /\ cleaned' = cleaned \ {r.uid : r \in store' \ store}
  /\ UNCHANGED <<tk, db, client, clients, connected, indexes, nextUuid, budget>>

\* ragBuilder.ts:162-167 and 172: insertMany rejected: the server refused some
\* documents and wrote the others (always so when a document conflicts), or
\* the request never reached the server ("unsent"), or the server wrote what it
\* could and the reply was lost ("lost").  In the loop the catch
\* block logs and the buffer keeps its documents; after the loop the error
\* leaves buildFromTexts
InsertManyRejected(c) ==
  /\ call[c].pc \in {"awaitInsertMid", "awaitInsertFinal"}
  /\ LET cr == call[c]
         written == Written(cr.documents)
         refused == Cardinality(written \ store) < Len(cr.documents)
     IN \E failure \in (IF refused THEN {"refused"} ELSE {})
                       \cup (IF budget.faults > 0 THEN {"unsent", "lost"} ELSE {}) :
          /\ budget' = IF failure = "refused" THEN budget ELSE [budget EXCEPT !.faults = @ - 1]
          /\ store' = IF failure = "unsent" THEN store ELSE written
          /\ LET h == [hist[c] EXCEPT !.accepted = @ \cup AcceptedOf(store' \ store),
                                      !.insertErrors = @ + 1]
             IN ApplyWrite(c, IF cr.pc = "awaitInsertMid"
                              THEN Advance(cr, h, cr.idx + 1, cr.documents)
                              ELSE [cr |-> Raised(cr), h |-> h, oid |-> nextOid],
                           store' \ store)
  /\ cleaned' = cleaned \ {r.uid : r \in store' \ store}
  /\ UNCHANGED <<tk, db, client, clients, connected, indexes, nextUuid>>

----------------------------------------------------------------------------
(* ragBuilder.ts: cleanupByUid *)

\* as CallCleanupByUid behind a lock: the call waits until no other call is
\* in flight
CallCleanupByUidExclusive(c, uid) ==
  /\ \A d \in Callers \ {c} : ~InFlight(call[d])
  /\ call[c].pc \in {"idle", "done"}
  /\ budget.cleanups > 0
  /\ budget' = [budget EXCEPT !.cleanups = @ - 1]
  /\ EnterGetCollection(c, [IdleCall EXCEPT !.op = "cleanup", !.uid = uid])
  /\ hist' = [hist EXCEPT ![c] = NoHist]
  /\ UNCHANGED <<tk, cleaned, db, connected, indexes, store, nextUuid, nextOid>>

\* ragBuilder.ts:197-198
CallCleanupByUid(c, uid) ==
  /\ call[c].pc \in {"idle", "done"}
  /\ budget.cleanups > 0
  /\ budget' = [budget EXCEPT !.cleanups = @ - 1]
  /\ EnterGetCollection(c, [IdleCall EXCEPT !.op = "cleanup", !.uid = uid])
  /\ hist' = [hist EXCEPT ![c] = NoHist]
  /\ UNCHANGED <<tk, cleaned, db, connected, indexes, store, nextUuid, nextOid>>

\* ragBuilder.ts:199-201: deleteMany resolved; its deletedCount is returned
DeleteManyResolved(c) ==
  /\ call[c].pc = "awaitDelete"
  /\ store' = store \ Matching(store, call[c].uid)
  /\ call' = [call EXCEPT ![c] = Returned([@ EXCEPT !.result = Cardinality(Matching(store, call[c].uid))])]
  /\ cleaned' = cleaned \cup {call[c].uid}
  /\ hist' = Witnessed(hist, c, {}, {call[c].uid})
  /\ UNCHANGED <<tk, db, client, clients, connected, indexes, nextUuid, nextOid,
                 budget>>

\* ragBuilder.ts:199: deleteMany rejected; the error leaves cleanupByUid
DeleteManyRejected(c) ==
  /\ call[c].pc = "awaitDelete"
  /\ budget.faults > 0
  /\ budget' = [budget EXCEPT !.faults = @ - 1]
  /\ call' = [call EXCEPT ![c] = Raised(@)]
  /\ UNCHANGED <<tk, cleaned, db, client, clients, connected, indexes, store, nextUuid, nextOid, hist>>

----------------------------------------------------------------------------
(* ragBuilder.ts: buildFromFile *)

\* ragBuilder.ts:179-182: buildFromFile(filePath) on a builder whose uid option
\* is uid; fs.access is requested
CallBuildFromFile(c, path, uid) ==
  /\ call[c].pc \in {"idle", "done"}
  /\ budget.builds > 0
  /\ budget' = [budget EXCEPT !.builds = @ - 1]
  /\ call' = [call EXCEPT ![c] = [IdleCall EXCEPT !.pc = "awaitAccess", !.op = "file",
                                                  !.uid = uid, !.path = path]]
  /\ hist' = [hist EXCEPT ![c] = NoHist]
  /\ UNCHANGED <<tk, cleaned, db, client, clients, connected, indexes, store, nextUuid, nextOid>>

\* ragBuilder.ts:182-188: fs.access resolved; fs.readFile is requested
AccessResolved(c) ==
  /\ call[c].pc = "awaitAccess"
  /\ call[c].path \in DOMAIN Files
  /\ call' = [call EXCEPT ![c].pc = "awaitReadFile"]
  /\ UNCHANGED <<tk, cleaned, db, client, clients, connected, indexes, store, nextUuid, nextOid,
                 budget, hist>>

\* as AccessRejected in a builder that takes the collection whatever
\* fs.access answered
AccessRejectedIgnored(c) ==
  /\ call[c].pc = "awaitAccess"
  /\ EnterGetCollection(c, [call[c] EXCEPT !.op = "build"])
  /\ UNCHANGED <<tk, cleaned, db, connected, indexes, store, nextUuid, nextOid, budget, hist>>

\* ragBuilder.ts:183-185: fs.access rejected, as it does for a path that does
\* not exist; "Input file not found" leaves buildFromFile
AccessRejected(c) ==
  /\ call[c].pc = "awaitAccess"
  /\ \E fault \in (IF call[c].path \in DOMAIN Files THEN {} ELSE {FALSE})
                  \cup (IF budget.faults > 0 THEN {TRUE} ELSE {}) :
       budget' = IF fault THEN [budget EXCEPT !.faults = @ - 1] ELSE budget
  /\ call' = [call EXCEPT ![c] = Raised(@)]
  /\ UNCHANGED <<tk, cleaned, db, client, clients, connected, indexes, store, nextUuid, nextOid,
                 hist>>

\* ragBuilder.ts:188-191: the content arrived; it is split into paragraphs and
\* buildFromTexts(paragraphs) is entered
ReadFileResolved(c) ==
  /\ call[c].pc = "awaitReadFile"
  /\ call[c].path \in DOMAIN Files
  /\ EnterGetCollection(c, [call[c] EXCEPT !.op = "build",
                                           !.texts = tokenizeParagraphs(Files[call[c].path])])
  /\ UNCHANGED <<tk, cleaned, db, connected, indexes, store, nextUuid, nextOid, budget, hist>>

\* ragBuilder.ts:188: fs.readFile rejected; the error leaves buildFromFile
ReadFileRejected(c) ==
  /\ call[c].pc = "awaitReadFile"
  /\ budget.faults > 0
  /\ budget' = [budget EXCEPT !.faults = @ - 1]
  /\ call' = [call EXCEPT ![c] = Raised(@)]
  /\ UNCHANGED <<tk, cleaned, db, client, clients, connected, indexes, store, nextUuid, nextOid, hist>>

----------------------------------------------------------------------------
(* tokenizer.ts: calls of the tokenizers and of the chunker *)

Pipeline == <<db, client, clients, connected, indexes, store, nextUuid, nextOid,
              budget, cleaned, call, hist>>

\* tokenizer.ts:25-32: new BasicWordTokenizer(false).tokenize(text)
WordTokenizeCall ==
  /\ tk.pc = "start"
  /\ tk' = [tk EXCEPT !.pc = "tokenized", !.words = WordTokenize(tk.text)]
  /\ UNCHANGED Pipeline

\* tokenizer.ts:34-36: formatWords of the words tokenize returned
FormatWordsCall ==
  /\ tk.pc = "tokenized"
  /\ tk' = [tk EXCEPT !.pc = "formatted", !.result = formatWords(tk.words)]
  /\ UNCHANGED Pipeline

\* tokenizer.ts:54-59: tokenizeParagraphs(text)
TokenizeParagraphsCall ==
  /\ tk.pc = "start"
  /\ tk' = [tk EXCEPT !.pc = "paragraphs", !.result = tokenizeParagraphs(tk.text)]
  /\ UNCHANGED Pipeline

\* tokenizer.ts:87-125: new SentenceChunker({ maxChunkSize, chunkOverlap }).chunk(text)
ChunkCall ==
  /\ tk.pc = "start"
  /\ tk' = [tk EXCEPT !.pc = "chunked",
                      !.result = chunk(tk.text, tk.maxChunkSize, tk.chunkOverlap)]
  /\ UNCHANGED Pipeline

\* tokenizer.ts:100 and 115  lastBufWords.slice(1): of an empty array it is
\* the empty array
SliceFirst(words) == IF words = <<>> THEN <<>> ELSE Tail(words)

\* The statements of chunk() one at a time.  tk.pc is the position in the
\* code: "enter", "paragraph" (the head of the loop over the paragraphs),
\* "word" (the head of the loop over the words of the paragraph, the
\* sentences of the paragraph one after the other), "while" (the test of a
\* while statement), "slice" (its body) and "chunked" (returned).  tk.flush
\* tells the two while statements apart: "word" for lines 99-101, "end" for
\* lines 114-116.  tk.words holds the words of the paragraph still to come
\* and tk.result the chunks pushed.
ChunkRun(text, maxChunkSize, chunkOverlap) ==
  [pc |-> "enter", text |-> text, maxChunkSize |-> maxChunkSize,
   chunkOverlap |-> chunkOverlap, words |-> <<>>, result |-> <<>>,
   paragraphs |-> <<>>, p |-> 0, bufWords |-> <<>>, lastBufWords |-> <<>>,
   flush |-> "none"]

\* tokenizer.ts:88-91: chunks and bufWords are declared, the paragraphs are
\* computed
ChunkEnter ==
  /\ tk.pc = "enter"
  /\ tk' = [tk EXCEPT !.pc = "paragraph", !.paragraphs = tokenizeParagraphs(tk.text)]
  /\ UNCHANGED Pipeline

\* tokenizer.ts:91-94 and 124: the next paragraph, with a new lastBufWords,
\* or the return after the last
ForParagraph ==
  /\ tk.pc = "paragraph"
  /\ IF tk.p = Len(tk.paragraphs)
     THEN tk' = [tk EXCEPT !.pc = "chunked"]
     ELSE tk' = [tk EXCEPT !.pc = "word", !.p = @ + 1, !.lastBufWords = <<>>,
                           !.words = ParagraphWords(tk.paragraphs[tk.p + 1])]
  /\ UNCHANGED Pipeline

\* tokenizer.ts:95-98, 109 and 113: the next word is pushed when the buffer
\* with it fits, and otherwise a flush begins; after the last word the
\* buffer left is flushed
ForWord ==
  /\ tk.pc = "word"
  /\ IF tk.words = <<>>
     THEN IF Len(tk.bufWords) > 0
          THEN tk' = [tk EXCEPT !.pc = "while", !.flush = "end"]
          ELSE tk' = [tk EXCEPT !.pc = "paragraph"]
     ELSE IF ExceedsMax(tk.bufWords, Head(tk.words), tk.maxChunkSize)
          THEN tk' = [tk EXCEPT !.pc = "while", !.flush = "word"]
          ELSE tk' = [tk EXCEPT !.bufWords = PushWord(@, Head(tk.words), FALSE),
                                !.words = Tail(@)]
  /\ UNCHANGED Pipeline

\* tokenizer.ts:99 and 114: the test of the while statement, and behind it
\* lines 103-109 or 118-120: the chunk is pushed
WhileTest ==
  /\ tk.pc = "while"
  /\ LET pushed == Append(tk.result, [carry |-> tk.lastBufWords, pending |-> tk.bufWords,
                                      paragraph |-> tk.p])
     IN IF Len(formatWords(tk.lastBufWords)) > tk.chunkOverlap
        THEN tk' = [tk EXCEPT !.pc = "slice"]
        ELSE IF tk.flush = "word"
             THEN tk' = [tk EXCEPT !.pc = "word", !.flush = "none", !.result = pushed,
                                   !.lastBufWords = tk.bufWords,
                                   !.bufWords = PushWord(<<>>, Head(tk.words), TRUE),
                                   !.words = Tail(@)]
             ELSE tk' = [tk EXCEPT !.pc = "paragraph", !.flush = "none", !.result = pushed,
                                   !.bufWords = <<>>]
  /\ UNCHANGED Pipeline

\* tokenizer.ts:100 and 115: the body of the while statement
WhileBody ==
  /\ tk.pc = "slice"
  /\ tk' = [tk EXCEPT !.pc = "while", !.lastBufWords = SliceFirst(@)]
  /\ UNCHANGED Pipeline

----------------------------------------------------------------------------
(* Inputs and specifications *)

TextValues == {<<>>, <<" ", " ">>, <<"a">>, <<" ", "b">>}

\* every list of at most MaxTexts texts
ShortInputs == UNION {[1..n -> TextValues] : n \in 0..MaxTexts}

LongLengths == {BatchSize - 1, BatchSize, BatchSize + 1, 2 * BatchSize, MaxLong}

\* a list of one text and a list of two
OwnerInputs == { << <<"a">> >>, << <<"a">>, <<" ", "b">> >> }

\* lists of valid texts around the flush boundaries
LongInputs == {[i \in 1..n |-> <<"a">>] : n \in LongLengths}

\* the uid option of a builder: absent, or an owner
BuilderUids == {NoUid, "owner-1"}

Owners == {"owner-1", "owner-2"}

Step(callers, inputs, uids, owners) ==
  \E c \in callers :
    \/ \E texts \in inputs, uid \in uids : CallBuildFromTexts(c, texts, uid)
    \/ \E uid \in owners : CallCleanupByUid(c, uid)
    \/ ConnectResolved(c)
    \/ ConnectRejected(c)
    \/ GetCollectionResume(c)
    \/ ListIndexesResolved(c)
    \/ ListIndexesRejected(c)
    \/ CreateIndexResolved(c)
    \/ CreateIndexRejected(c)
    \/ EmbeddingResolved(c)
    \/ EmbeddingRejected(c)
    \/ InsertManyResolved(c)
    \/ InsertManyRejected(c)
    \/ DeleteManyResolved(c)
    \/ DeleteManyRejected(c)

\* one caller, short inputs of every shape
Init == InitWith([builds |-> 1, cleanups |-> MaxCleanups, faults |-> MaxFaults,
                  collisions |-> MaxCollisions, flaky |-> MaxTexts],
                 {{IdIndex}, AllIndexes})

Next == Step({1}, ShortInputs, {"owner-1"}, {"owner-1"})

Spec == Init /\ [][Next]_vars

\* one caller, inputs that fill the buffer
InitBatch == InitWith([builds |-> 1, cleanups |-> MaxBatchCleanups, faults |-> MaxBatchFaults,
                       collisions |-> 0, flaky |-> MaxBatchFlaky],
                      {{IdIndex}})

NextBatch == Step({1}, LongInputs, {"owner-1"}, {"owner-1"})

SpecBatch == InitBatch /\ [][NextBatch]_vars

\* one caller, builders and cleanups of several owners
InitOwners == InitWith([builds |-> 1, cleanups |-> MaxOwnerCleanups, faults |-> MaxOwnerFaults,
                        collisions |-> 0, flaky |-> MaxTexts],
                       {{IdIndex}, AllIndexes})

NextOwners == Step({1}, OwnerInputs, BuilderUids, Owners)

SpecOwners == InitOwners /\ [][NextOwners]_vars

MaxFileBuilds == 2     \* build calls per behaviour, builds from files
MaxFileCleanups == 1   \* cleanupByUid calls per behaviour, builds from files
MaxFileFaults == 1     \* collaborator faults per behaviour, builds from files

\* the steps of buildFromFile
StepFile(callers, paths, uids) ==
  \E c \in callers :
    \/ \E path \in paths, uid \in uids : CallBuildFromFile(c, path, uid)
    \/ AccessResolved(c)
    \/ AccessRejected(c)
    \/ ReadFileResolved(c)
    \/ ReadFileRejected(c)

\* one caller, builds from files and from lists, cleanups
InitFile == InitWith([builds |-> MaxFileBuilds, cleanups |-> MaxFileCleanups,
                      faults |-> MaxFileFaults, collisions |-> 0, flaky |-> MaxTexts],
                     {{IdIndex}, AllIndexes})

NextFile ==
  \/ Step({1}, OwnerInputs, BuilderUids, Owners)
  \/ StepFile({1}, Paths, BuilderUids)

SpecFile == InitFile /\ [][NextFile]_vars

MaxSharedBuilds == 2    \* build calls per behaviour, two callers
MaxSharedCleanups == 1  \* cleanupByUid calls per behaviour, two callers
MaxSharedFaults == 1    \* collaborator faults per behaviour, two callers

\* a list of one text
SharedInputs == { << <<"a">> >> }

\* two callers whose calls interleave at every await, on a collection that
\* lacks one of the four indexes
InitShared == InitWith([builds |-> MaxSharedBuilds, cleanups |-> MaxSharedCleanups,
                        faults |-> MaxSharedFaults, collisions |-> 0, flaky |-> MaxTexts],
                       {AllIndexes \ {"uid_1"}})

NextShared == Step(Callers, SharedInputs, {"owner-1"}, {"owner-1"})

SpecShared == InitShared /\ [][NextShared]_vars

MaxChars == 6        \* longest text given to a tokenizer
MaxChunkChars == 5   \* longest text given to the chunker
MaxChunkSize == 3    \* greatest maxChunkSize of a chunker
MaxOverlap == 2      \* greatest chunkOverlap of a chunker

\* a word character, a terminal character, and the two kinds of whitespace
TextChars == {"a", ".", " ", "\n"}

\* every text of at most n characters
TextsUpTo(n) == UNION {[1..k -> TextChars] : k \in 0..n}

NoBudget == [builds |-> 0, cleanups |-> 0, faults |-> 0, collisions |-> 0, flaky |-> 0]

\* the tokenizers on every short text
InitTokenizers ==
  /\ InitPipeline(NoBudget, {{IdIndex}})
  /\ \E text \in TextsUpTo(MaxChars) : tk = [NoTk EXCEPT !.pc = "start", !.text = text]

NextTokenizers ==
  \/ WordTokenizeCall
  \/ FormatWordsCall
  \/ TokenizeParagraphsCall

SpecTokenizers == InitTokenizers /\ [][NextTokenizers]_vars

\* "This is sentence one. This is sentence two."
TwoSentences ==
  <<"T", "h", "i", "s", " ", "i", "s", " ", "s", "e", "n", "t", "e", "n",
    "c", "e", " ", "o", "n", "e", ".", " ", "T", "h", "i", "s", " ", "i",
    "s", " ", "s", "e", "n", "t", "e", "n", "c", "e", " ", "t", "w", "o",
    ".">>

\* "a a", a blank line, "a": the shortest text with two chunks in a
\* paragraph and a paragraph behind it
TwoParagraphs == <<"a", " ", "a", "\n", "\n", "a">>

\* the chunker on every short text and on the two paragraphs, for every small
\* size and overlap, and on the two sentences with a size of 20 and an
\* overlap of 5
InitChunker ==
  /\ InitPipeline(NoBudget, {{IdIndex}})
  /\ \/ \E text \in TextsUpTo(MaxChunkChars) \cup {TwoParagraphs}, size \in 0..MaxChunkSize,
            overlap \in 0..MaxOverlap :
          tk = [NoTk EXCEPT !.pc = "start", !.text = text,
                            !.maxChunkSize = size, !.chunkOverlap = overlap]
     \/ tk = [NoTk EXCEPT !.pc = "start", !.text = TwoSentences,
                          !.maxChunkSize = 20, !.chunkOverlap = 5]

NextChunker == ChunkCall

SpecChunker == InitChunker /\ [][NextChunker]_vars

MaxLoopChars == 4    \* longest text given to the chunker run by statements
MaxLoopSize == 2     \* greatest maxChunkSize of a chunker run by statements
MaxLoopOverlap == 1  \* greatest chunkOverlap of a chunker run by statements

\* the options the constructor (tokenizer.ts:79-80) accepts: any number,
\* here a negative overlap too
LoopOverlaps == (0 - 1)..MaxLoopOverlap

\* chunk() by statements on every short text, for every small size and
\* overlap
InitChunkLoop ==
  /\ InitPipeline(NoBudget, {{IdIndex}})
  /\ \E text \in TextsUpTo(MaxLoopChars), size \in 0..MaxLoopSize, overlap \in LoopOverlaps :
       tk = ChunkRun(text, size, overlap)

NextChunkLoop ==
  \/ ChunkEnter
  \/ ForParagraph
  \/ ForWord
  \/ WhileTest
  \/ WhileBody

\* chunk() is synchronous code: a statement that can run does run
SpecChunkLoop == InitChunkLoop /\ [][NextChunkLoop]_vars /\ WF_vars(NextChunkLoop)

----------------------------------------------------------------------------
(* Properties *)

\* the indexes a build call's filtered list runs over
Units(c) == 0..(Len(call[c].validTexts) - 1)

\* the documents written by buildFromTexts calls
Built == store \ InitStore

CeilDiv(n, d) == (n + d - 1) \div d

\* C1: per-item failure isolation in buildFromTexts.  Whatever subset of the
\* valid units has a failing embedding request, the call is not ended by it
\* (a call raises only when it got no collection or an insertMany failed), no
\* failed unit is ever submitted to or held by the collection, and a call that
\* returns without an insertMany failure has a document in the collection for
\* every other valid unit.
C1_PerItemFailureIsolation ==
  \A c \in Callers :
    call[c].op = "build" =>
      /\ hist[c].failed \cap hist[c].submitted = {}
      /\ \A r \in Built : r.index \notin hist[c].failed
      /\ call[c].outcome = "raised" =>
           call[c].collection = NULL \/ hist[c].insertErrors > 0
      /\ (call[c].pc = "done" /\ call[c].outcome = "returned" /\ hist[c].insertErrors = 0) =>
           /\ hist[c].accepted = Units(c) \ hist[c].failed
           /\ \A i \in Units(c) \ hist[c].failed :
                \E r \in Built : r.index = i /\ r.content = call[c].validTexts[i + 1]

\* the embedding fails for exactly the 2nd of 3 units; the call returns with
\* documents for units 1 and 3
C1_Witness ==
  \E c \in Callers :
    /\ call[c].op = "build" /\ call[c].pc = "done" /\ call[c].outcome = "returned"
    /\ Len(call[c].validTexts) = 3
    /\ hist[c].failed = {1}
    /\ {r.index : r \in Built} = {0, 2}

\* C2: buildFromTexts completes without raising even when a bulk insert fails,
\* in a flush of the loop or in the last flush.
C2_BulkInsertFailureNeverRaises ==
  \A c \in Callers :
    (call[c].op = "build" /\ hist[c].insertErrors > 0) => call[c].outcome # "raised"

\* C3: buildFromTexts ignores every unit whose trimmed content is empty: no
\* embedding is requested and no document is submitted or stored for one, so
\* neither the requests nor the documents outnumber the units with non-empty
\* trimmed content; ["", "  ", "a"] gives exactly one document.
C3_EmptyUnitsIgnored ==
  \A c \in Callers :
    call[c].op = "build" =>
      LET nonEmpty == {i \in DOMAIN call[c].texts : Len(Trim(call[c].texts[i])) > 0}
      IN /\ Len(hist[c].reqLog) <= Cardinality(nonEmpty)
         /\ \A k \in DOMAIN hist[c].reqLog :
              Len(Trim(call[c].validTexts[hist[c].reqLog[k] + 1])) > 0
         /\ Cardinality(hist[c].submitted) <= Cardinality(nonEmpty)
         /\ \A r \in Built : Len(Trim(r.content)) > 0
         /\ ( /\ call[c].texts = << <<>>, <<" ", " ">>, <<"a">> >>
              /\ call[c].pc = "done" /\ call[c].outcome = "returned"
              /\ hist[c].failed = {} )
            => \E r \in Built : Built = {r} /\ r.content = <<"a">>

C3_Witness ==
  \E c \in Callers :
    /\ call[c].op = "build" /\ call[c].pc = "done" /\ call[c].outcome = "returned"
    /\ call[c].texts = << <<>>, <<" ", " ">>, <<"a">> >>
    /\ hist[c].reqLog = <<0>>
    /\ Cardinality(Built) = 1

\* C4: batch flush boundary.  When all N valid units embed and every insertMany
\* succeeds, buildFromTexts makes exactly ceil(N / 100) insertMany calls, each of
\* 100 documents except possibly the last (N = 250: 100, 100, 50).
C4_BatchFlushBoundary ==
  \A c \in Callers :
    ( /\ call[c].op = "build" /\ call[c].pc = "done" /\ call[c].outcome = "returned"
      /\ hist[c].failed = {} /\ hist[c].insertErrors = 0 )
    => LET n == Len(call[c].validTexts)
           b == hist[c].batches
       IN /\ Len(b) = CeilDiv(n, BatchSize)
          /\ \A k \in DOMAIN b :
               b[k] = IF k < Len(b) THEN BatchSize ELSE n - BatchSize * (Len(b) - 1)
          /\ \A k \in DOMAIN b : b[k] >= 1 /\ b[k] <= BatchSize

C4_Witness ==
  \E c \in Callers :
    /\ call[c].op = "build" /\ call[c].pc = "done" /\ call[c].outcome = "returned"
    /\ Len(call[c].validTexts) = 2 * BatchSize + 50
    /\ hist[c].batches = <<BatchSize, BatchSize, 50>>

\* C5: the deleteMany of cleanupByUid(o) removes exactly the documents whose
\* uid is o, leaves every document of another owner or of no owner in place,
\* and the call returns the number of documents removed.
C5_CleanupFrame ==
  [][\A c \in Callers :
       (call[c].pc = "awaitDelete" /\ call'[c].outcome = "returned") =>
         /\ \A r \in store : (r \in store') <=> (r.uid # call[c].uid)
         /\ store' \subseteq store
         /\ call'[c].result = Cardinality(store \ store')]_vars

\* cleanupByUid("owner-1") returned 1 and the documents of owner-2 and of no
\* owner are still there
C5_Witness ==
  \E c \in Callers :
    /\ call[c].op = "cleanup" /\ call[c].pc = "done" /\ call[c].outcome = "returned"
    /\ call[c].uid = "owner-1" /\ call[c].result = 1
    /\ \E r \in store : r.uid = "owner-2"
    /\ \E r \in store : r.uid = NoUid

\* C6: cleanupByUid is idempotent: a cleanupByUid(o) after an earlier one, with
\* no document of o written in between, returns 0 and leaves the collection
\* as it was.
C6_CleanupIdempotent ==
  [][\A c \in Callers :
       (call[c].pc = "awaitDelete" /\ call'[c].outcome = "returned" /\ call[c].uid \in cleaned) =>
         /\ call'[c].result = 0
         /\ store' = store]_vars

\* a second cleanupByUid("owner-1"), before any build, has returned 0
C6_Witness ==
  \E c \in Callers :
    /\ call[c].op = "cleanup" /\ call[c].pc = "done" /\ call[c].outcome = "returned"
    /\ call[c].uid = "owner-1" /\ call[c].result = 0
    /\ budget.cleanups <= MaxOwnerCleanups - 2
    /\ budget.builds = 1
    /\ "owner-1" \in cleaned

\* C7: the valid units of one buildFromTexts call are processed one after the
\* other in input order: the requests are for units 0, 1, 2, ... in that order,
\* at most one embedding request of the call is outstanding, and while the
\* request for unit j is outstanding every earlier unit has failed or has its
\* document in the buffer or submitted, and no insertMany is outstanding.
C7_SequentialUnits ==
  \A c \in Callers :
    call[c].op = "build" =>
      /\ Cardinality(hist[c].inflight) <= 1
      /\ hist[c].reqLog = [k \in 1..Len(hist[c].reqLog) |-> k - 1]
      /\ \A j \in hist[c].inflight :
           /\ call[c].pc = "awaitEmbed"
           /\ j = call[c].idx
           /\ j = Len(hist[c].reqLog) - 1
           /\ \A i \in 0..(j - 1) :
                \/ i \in hist[c].failed
                \/ i \in hist[c].submitted
                \/ \E k \in DOMAIN call[c].documents : call[c].documents[k].index = i
      /\ call[c].pc \in {"awaitInsertMid", "awaitInsertFinal"} => hist[c].inflight = {}

\* the request for the third unit is outstanding, the first has failed and the
\* second is buffered
C7_Witness ==
  \E c \in Callers :
    /\ call[c].op = "build" /\ call[c].pc = "awaitEmbed"
    /\ hist[c].inflight = {2}
    /\ hist[c].failed = {0}
    /\ Len(call[c].documents) = 1 /\ call[c].documents[1].index = 1

\* C8: every document of a buildFromTexts call carries as index the position of
\* its unit in the filtered list of the call: its content is the text at that
\* position, and the indexes of the documents made so far are exactly the
\* positions of the units done so far less the failed ones, which leave gaps.
C8_SequenceIndex ==
  \A c \in Callers :
    call[c].op = "build" =>
      LET cr == call[c]
          done == IF cr.pc = "awaitInsertMid" THEN cr.idx + 1 ELSE cr.idx
          buffered == {cr.documents[k].index : k \in DOMAIN cr.documents}
      IN /\ \A k \in DOMAIN cr.documents :
              cr.documents[k].content = cr.validTexts[cr.documents[k].index + 1]
         /\ \A k \in 1..(Len(cr.documents) - 1) :
              cr.documents[k].index < cr.documents[k + 1].index
         /\ \A r \in Built : r.content = cr.validTexts[r.index + 1]
         /\ buffered \cup hist[c].submitted = (0..(done - 1)) \ hist[c].failed

\* of ["", "a", " b"] the embedding of "a" failed: the document of " b" has
\* index 1, not 2 (its place in the input) and not 0 (the successes before it)
C8_Witness ==
  \E c \in Callers :
    /\ call[c].op = "build" /\ call[c].pc = "done" /\ call[c].outcome = "returned"
    /\ call[c].texts = << <<>>, <<"a">>, <<" ", "b">> >>
    /\ hist[c].failed = {0}
    /\ \E r \in Built : Built = {r} /\ r.index = 1 /\ r.content = <<" ", "b">>

\* C9: no retries: within one buildFromTexts call the embedding of each valid
\* unit is requested at most once and each document is submitted in at most one
\* insertMany call, also after a failure.
C9_NoRetries ==
  \A c \in Callers :
    call[c].op = "build" =>
      /\ \A j, k \in DOMAIN hist[c].reqLog : hist[c].reqLog[j] = hist[c].reqLog[k] => j = k
      /\ hist[c].resubmitted = {}

\* the connect() of the call's own MongoClient was rejected
ConnectFailed(c) ==
  /\ call[c].conn # NULL
  /\ call[c].conn \notin connected
  /\ call[c].pc # "awaitConnect"

\* C10: when the connection cannot be established buildFromTexts raises before
\* any embedding request and before any write: the call has raised, has asked
\* nothing of the embedding service or of the collection, and the step that
\* ends it leaves the documents and the indexes as they were.
C10_ConnectFailureLeavesNoTrace ==
  /\ [](\A c \in Callers :
          (call[c].op = "build" /\ ConnectFailed(c)) =>
            /\ call[c].pc = "done" /\ call[c].outcome = "raised"
            /\ hist[c] = NoHist)
  /\ [][\A c \in Callers :
          (call[c].op = "build" /\ call[c].pc = "awaitConnect" /\ call'[c].pc # "awaitConnect") =>
            /\ store' = store
            /\ indexes' = indexes]_vars

C10_Witness ==
  \E c \in Callers :
    /\ call[c].op = "build" /\ ConnectFailed(c)
    /\ call[c].outcome = "raised"
    /\ store = InitStore

\* the call of c has left getCollection with the collection
PastBootstrap(c) ==
  /\ call[c].collection # NULL
  /\ call[c].pc \notin {"awaitListIndexes", "awaitCreateIndex"}

\* C11: buildFromFile on a path that does not exist fails with the input error
\* before the store is accessed and before any embedding request: the call has
\* raised without a connection, a collection or a request, and no step of the
\* call changes the documents, the indexes or the connection state.
C11_MissingFileFailsFirst ==
  /\ [](\A c \in Callers :
          (call[c].path \in Paths \ DOMAIN Files /\ call[c].pc # "awaitAccess") =>
            /\ call[c].op = "file" /\ call[c].pc = "done" /\ call[c].outcome = "raised"
            /\ call[c].conn = NULL /\ call[c].collection = NULL
            /\ hist[c] = NoHist)
  /\ [][\A c \in Callers :
          (call'[c].path \in Paths \ DOMAIN Files /\ call'[c] # call[c]) =>
            /\ store' = store /\ indexes' = indexes
            /\ db' = db /\ client' = client /\ clients' = clients /\ connected' = connected
            /\ nextOid' = nextOid /\ nextUuid' = nextUuid]_vars

\* after a build that stored documents, buildFromFile("missing.txt") has raised
C11_Witness ==
  \E c \in Callers :
    /\ call[c].op = "file" /\ call[c].path = "missing.txt"
    /\ call[c].pc = "done" /\ call[c].outcome = "raised"
    /\ Built # {}

\* the names of IndexOrder that the listing names lacks, in that order
MissingFrom(names) == SelectSeq(IndexOrder, LAMBDA n : n \notin names)

\* C12: the index bootstrap is idempotent: a createIndex is issued only for a
\* name of the four that the listing lacks, at most once per name and in the
\* order of the code; a bootstrap that met no failure has issued one for each
\* such name; and once all four indexes exist no step issues a createIndex or
\* changes the set of indexes.
C12_BootstrapIdempotent ==
  /\ [](\A c \in Callers :
          LET cr == hist[c].creates
          IN /\ \A k \in DOMAIN cr : cr[k] \notin call[c].indexNames
             /\ \A j, k \in DOMAIN cr : cr[j] = cr[k] => j = k
             /\ (PastBootstrap(c) /\ hist[c].indexErrors = 0) =>
                  /\ cr = MissingFrom(call[c].indexNames)
                  /\ AllIndexes \subseteq indexes
             /\ AllIndexes \subseteq call[c].indexNames => cr = <<>>)
  /\ [][AllIndexes \subseteq indexes =>
          /\ indexes' = indexes
          /\ \A c \in Callers : call'[c].pc # "awaitCreateIndex"
          /\ \A c \in Callers : hist'[c].creates \in {hist[c].creates, <<>>}]_vars

\* a build after a cleanup: its bootstrap found the four indexes and created none
C12_Witness ==
  \E c \in Callers :
    /\ call[c].op = "build" /\ PastBootstrap(c)
    /\ budget.cleanups < MaxCleanups
    /\ AllIndexes \subseteq call[c].indexNames
    /\ hist[c].creates = <<>>

\* C13: a failure of listIndexes or of a createIndex is only logged: the step
\* that meets it does not end the call, it hands the collection to
\* buildFromTexts or cleanupByUid, which go on with their first request (or
\* return, with nothing to embed), and the index is left missing; no call
\* raises out of the bootstrap.
C13_IndexFailureOnlyWarns ==
  /\ [](\A c \in Callers : hist[c].indexErrors <= 1)
  /\ [][\A c \in Callers :
          /\ call[c].pc \in {"awaitListIndexes", "awaitCreateIndex"} =>
               call'[c].outcome # "raised"
          /\ hist'[c].indexErrors > hist[c].indexErrors =>
               /\ call'[c].collection # NULL
               /\ indexes' = indexes
               /\ call'[c].pc = IF call[c].op = "cleanup" THEN "awaitDelete"
                                 ELSE IF ValidTexts(call[c].texts) = <<>> THEN "done"
                                 ELSE "awaitEmbed"]_vars

\* listIndexes failed, and the build has returned with its document stored in
\* a collection without the unique index
C13_Witness ==
  \E c \in Callers :
    /\ call[c].op = "build" /\ call[c].pc = "done" /\ call[c].outcome = "returned"
    /\ hist[c].indexErrors = 1 /\ hist[c].creates = <<>>
    /\ "uuid_1" \notin indexes
    /\ Built # {}

\* C14: the shared MongoClient is constructed and connected exactly once over
\* all calls of all builders, also when two calls make the first use at the
\* same time, and every call works on that one client.
C14_SingleSharedClient ==
  /\ clients <= 1
  /\ Cardinality(connected) <= 1
  /\ \A c \in Callers : call[c].conn # NULL => call[c].conn = client
  /\ \A c \in Callers : call[c].collection # NULL => call[c].collection \in connected
  /\ \A c1, c2 \in Callers :
       (call[c1].collection # NULL /\ call[c2].collection # NULL) =>
         call[c1].collection = call[c2].collection

\* every word the tokenizers produce for a text, in order
RECURSIVE ParagraphsWords(_)
ParagraphsWords(paragraphs) ==
  IF paragraphs = <<>> THEN <<>>
  ELSE ParagraphWords(Head(paragraphs)) \o ParagraphsWords(Tail(paragraphs))

AllWords(text) == ParagraphsWords(tokenizeParagraphs(text))

\* the length of the longest of some words, 0 for none
LongestWord(words) == Greatest({0} \cup {Len(words[k]) : k \in DOMAIN words})

IsSuffix(x, y) == Len(x) <= Len(y) /\ x = SubSeq(y, Len(y) - Len(x) + 1, Len(y))

\* C16: the overlap invariant.  Of two consecutive chunks of one paragraph the
\* second is S followed by the words accumulated since the first, where S is
\* a suffix of the first of at most chunkOverlap characters; the first chunk of
\* a paragraph has no overlap.
C16_OverlapInvariant ==
  tk.pc = "chunked" =>
    \A k \in DOMAIN tk.result :
      LET ch == tk.result[k]
          S == formatWords(ch.carry)
      IN /\ Len(S) <= tk.chunkOverlap
         /\ ChunkText(ch) = S \o formatWords(ch.pending)
         /\ IF k > 1 /\ tk.result[k - 1].paragraph = ch.paragraph
            THEN /\ IsSuffix(S, ChunkText(tk.result[k - 1]))
                 /\ IsSuffix(ch.carry, tk.result[k - 1].pending)
            ELSE S = <<>>

\* the two sentences with a size of 20 and an overlap of 5: more than one
\* chunk, and the second starts with a non-empty suffix of the first
C16_Witness ==
  /\ tk.pc = "chunked"
  /\ tk.text = TwoSentences
  /\ Len(tk.result) >= 2
  /\ Len(formatWords(tk.result[2].carry)) \in 1..5

\* the parts of the chunks that are not overlap, one after the other
RECURSIVE PendingWords(_)
PendingWords(chunks) ==
  IF chunks = <<>> THEN <<>> ELSE Head(chunks).pending \o PendingWords(Tail(chunks))

\* C17: no word is dropped by the chunker: the parts of the chunks that are
\* not overlap, in output order, are exactly the words the tokenizers produce
\* for the text, each once and in input order, whatever their length.
C17_NoWordDropped ==
  tk.pc = "chunked" => PendingWords(tk.result) = AllWords(tk.text)

\* a text with a word longer than maxChunkSize after another word
C17_Witness ==
  /\ tk.pc = "chunked"
  /\ tk.maxChunkSize >= 1
  /\ \E k \in DOMAIN tk.result :
       /\ k > 1
       /\ Len(tk.result[k].pending) = 1
       /\ Len(tk.result[k].pending[1]) > tk.maxChunkSize
       /\ tk.result[k - 1].pending # <<>>

\* C18: the round trip of the whitespace-preserving word tokenizer:
\* formatWords(tokenize(s)) = s, no word is empty, every word is a run of
\* whitespace or a run of other characters, and the two kinds alternate.
C18_WordRoundTrip ==
  /\ tk.pc \in {"tokenized", "formatted"} =>
       /\ \A k \in DOMAIN tk.words :
            /\ Len(tk.words[k]) > 0
            /\ \A i, j \in DOMAIN tk.words[k] :
                 IsWhitespace(tk.words[k][i]) <=> IsWhitespace(tk.words[k][j])
       /\ \A k \in 1..(Len(tk.words) - 1) :
            IsWhitespace(tk.words[k][1]) <=> ~IsWhitespace(tk.words[k + 1][1])
  /\ tk.pc = "formatted" => tk.result = tk.text

\* " a\n ." went through tokenize and formatWords as four words
C18_Witness ==
  /\ tk.pc = "formatted"
  /\ tk.text = <<" ", "a", "\n", " ", ".">>
  /\ Len(tk.words) = 4
  /\ tk.result = tk.text

\* s.split("\n") from position i on, the current line starting at start
RECURSIVE Lines(_, _, _)
Lines(s, i, start) ==
  IF i > Len(s) THEN <<SubSeq(s, start, Len(s))>>
  ELSE IF s[i] = "\n" THEN <<SubSeq(s, start, i - 1)>> \o Lines(s, i + 1, i + 1)
  ELSE Lines(s, i + 1, start)

\* a line of whitespace only
IsBlankLine(line) == \A k \in DOMAIN line : IsWhitespace(line[k])

\* lines joined by newlines
RECURSIVE JoinLines(_)
JoinLines(lines) ==
  IF Len(lines) = 1 THEN Head(lines) ELSE Head(lines) \o <<"\n">> \o JoinLines(Tail(lines))

\* the runs of lines between runs of blank lines, from line i on, group being
\* the lines of the current run
RECURSIVE LineGroups(_, _, _)
LineGroups(lines, i, group) ==
  LET closed == IF group = <<>> THEN <<>> ELSE <<Trim(JoinLines(group))>>
  IN IF i > Len(lines) THEN closed
     ELSE IF IsBlankLine(lines[i]) THEN closed \o LineGroups(lines, i + 1, <<>>)
     ELSE LineGroups(lines, i + 1, Append(group, lines[i]))

\* the paragraphs occur in s from position from on, one after the other
RECURSIVE OccurInOrder(_, _, _)
OccurInOrder(paragraphs, s, from) ==
  \/ paragraphs = <<>>
  \/ \E i \in from..(Len(s) - Len(Head(paragraphs)) + 1) :
       /\ SubSeq(s, i, i + Len(Head(paragraphs)) - 1) = Head(paragraphs)
       /\ OccurInOrder(Tail(paragraphs), s, i + Len(Head(paragraphs)))

\* C19: tokenizeParagraphs(s) returns trimmed paragraphs that are not empty
\* and not whitespace only, in their order in s, and they are exactly the runs
\* of lines of s between runs of one or more blank lines.
C19_ParagraphsTrimmedInOrder ==
  tk.pc = "paragraphs" =>
    /\ \A k \in DOMAIN tk.result :
         /\ Len(tk.result[k]) > 0
         /\ Trim(tk.result[k]) = tk.result[k]
         /\ ~IsBlankLine(tk.result[k])
    /\ OccurInOrder(tk.result, tk.text, 1)
    /\ tk.result = LineGroups(Lines(tk.text, 1, 1), 1, <<>>)

\* "a.\n \na" gives "a." and "a"
C19_Witness ==
  /\ tk.pc = "paragraphs"
  /\ tk.text = <<"a", ".", "\n", " ", "\n", "a">>
  /\ tk.result = << <<"a", ".">>, <<"a">> >>

\* the units of the call of c whose embedding has arrived
Embedded(c) ==
  {hist[c].reqLog[k] : k \in DOMAIN hist[c].reqLog} \ (hist[c].failed \cup hist[c].inflight)

\* C20: the lifecycle of a record, over buildFromTexts, buildFromFile and
\* cleanupByUid calls: a record enters the collection only from the buffer of
\* a build call, made for a unit of non-empty trimmed content whose embedding
\* arrived; a record in the collection never changes; and a record leaves the
\* collection only in the deleteMany of a cleanupByUid call whose argument
\* is the record's uid.
C20_RecordLifecycle ==
  [][/\ \A r \in store' \ store :
          \E c \in Callers :
            /\ call[c].op = "build"
            /\ call[c].pc \in {"awaitInsertMid", "awaitInsertFinal"}
            /\ \E k \in DOMAIN call[c].documents : call[c].documents[k] = r
            /\ Len(Trim(r.content)) > 0
            /\ r.content = call[c].validTexts[r.index + 1]
            /\ r.index \in Embedded(c)
     /\ \A r \in store, q \in store' : r.oid = q.oid => r = q
     /\ \A r \in store \ store' :
          \E c \in Callers :
            /\ call[c].op = "cleanup" /\ call[c].pc = "awaitDelete"
            /\ call'[c].outcome = "returned"
            /\ call[c].uid = r.uid]_vars

\* a build from a file stored two records of owner-1 and a cleanupByUid of
\* owner-1 then removed them with the one that was there, and no other
C20_Witness ==
  \E c \in Callers :
    /\ call[c].op = "cleanup" /\ call[c].pc = "done" /\ call[c].outcome = "returned"
    /\ call[c].uid = "owner-1" /\ call[c].result = 3
    /\ store = {r \in InitStore : r.uid # "owner-1"}

ChunkLoopAgrees ==
  tk.pc = "chunked" => tk.result = chunk(tk.text, tk.maxChunkSize, tk.chunkOverlap)

\* C22: for every text, maxChunkSize and chunkOverlap, chunk returns: the
\* run reaches the return statement, so every while statement is left.
C22_ChunkTerminates == <>(tk.pc = "chunked")

\* the same for the overlaps that are not negative
C22_NonNegative == (tk.chunkOverlap >= 0) => <>(tk.pc = "chunked")

\* C23: cleanupByUid and buildFromTexts of one owner exclude each other
\* nowhere: whatever the other caller's call is doing, a caller that is not
\* in a call can begin a cleanupByUid or a buildFromTexts for the owner, the
\* deleteMany of a cleanup can complete, and so can the insertMany of a
\* build whose documents the server accepts.
C23_NoMutualExclusion ==
  \A c \in Callers :
    /\ (~InFlight(call[c]) /\ budget.cleanups > 0) => ENABLED CallCleanupByUid(c, "owner-1")
    /\ (~InFlight(call[c]) /\ budget.builds > 0) =>
         ENABLED CallBuildFromTexts(c, << <<"a">> >>, "owner-1")
    /\ call[c].pc = "awaitDelete" => ENABLED DeleteManyResolved(c)
    /\ (/\ call[c].pc \in {"awaitInsertMid", "awaitInsertFinal"}
        /\ Cardinality(Written(call[c].documents) \ store) = Len(call[c].documents)) =>
         ENABLED InsertManyResolved(c)

\* both interleavings in one run: the cleanup of owner-1 has removed a
\* document that a build wrote while the cleanup was in flight, and the build
\* now returned had the owner's documents deleted under it and has its own
\* document in the collection, behind the cleanup that returned
C23_Witness ==
  \E c, d \in Callers :
    /\ c # d
    /\ call[c].op = "cleanup" /\ call[c].pc = "done" /\ call[c].outcome = "returned"
    /\ call[c].uid = "owner-1"
    /\ hist[c].foreign # {}
    /\ \A r \in store : r.oid \notin hist[c].foreign
    /\ call[d].op = "build" /\ call[d].pc = "done" /\ call[d].outcome = "returned"
    /\ call[d].uid = "owner-1"
    /\ "owner-1" \in hist[d].swept
    /\ \E k \in DOMAIN call[d].documents :
         call[d].documents[k] \in store /\ call[d].documents[k].uid = "owner-1"

\* C24 as stated: insertMany is called whenever a push brings the buffer to
\* BatchSize documents, and every buildFromTexts call that returns does so
\* from one more insertMany, whatever the buffer holds at the end of the loop.
C24_FinalInsertAlways ==
  [][\A c \in Callers :
       (call[c].op = "build" /\ call'[c].op = "build" /\ InFlight(call[c])
        /\ call'[c] # call[c]) =>
         /\ call'[c].pc = "awaitInsertMid" =>
              (call[c].pc = "awaitEmbed" /\ Len(call'[c].documents) >= BatchSize)
         /\ (call'[c].pc = "done" /\ call'[c].outcome = "returned") =>
              call[c].pc = "awaitInsertFinal"]_vars

\* C24, amended: in every step of a buildFromTexts call, insertMany is
\* called inside the loop exactly when a document was pushed and the buffer
\* then holds BatchSize documents or more; at the end of the loop it is
\* called once more exactly when the buffer is not empty, and with an empty
\* buffer the call returns without it; the call ends with the answer to that
\* last insertMany; and no other step calls insertMany.
C24_FlushWhenFullAndLastIfAny ==
  [][\A c \in Callers :
       (call[c].op = "build" /\ call'[c].op = "build" /\ InFlight(call[c])
        /\ call'[c] # call[c]) =>
         LET cr == call[c]
             cr2 == call'[c]
             pushed == cr.pc = "awaitEmbed" /\ Len(cr2.documents) = Len(cr.documents) + 1
             loopEnded == /\ cr.pc # "awaitInsertFinal"
                          /\ cr2.pc \in {"awaitInsertFinal", "done"}
                          /\ cr2.outcome # "raised"
         IN /\ Len(hist'[c].batches) =
                 Len(hist[c].batches)
                   + (IF cr2.pc \in {"awaitInsertMid", "awaitInsertFinal"} THEN 1 ELSE 0)
            /\ cr2.pc \in {"awaitInsertMid", "awaitInsertFinal"} =>
                 hist'[c].batches[Len(hist'[c].batches)] = Len(cr2.documents)
            /\ (cr2.pc = "awaitInsertMid") <=> (pushed /\ Len(cr2.documents) >= BatchSize)
            /\ loopEnded => ((cr2.pc = "awaitInsertFinal") <=> (Len(cr2.documents) > 0))
            /\ cr.pc = "awaitInsertFinal" => cr2.pc = "done"]_vars

\* a build of BatchSize valid texts returned after one insertMany, the one
\* in the loop: the buffer was empty at the end and no last insert was made
C24_Witness ==
  \E c \in Callers :
    /\ call[c].op = "build" /\ call[c].pc = "done" /\ call[c].outcome = "returned"
    /\ Len(call[c].validTexts) = BatchSize
    /\ hist[c].batches = <<BatchSize>>
    /\ call[c].documents = <<>>

\* the chunks pushed in paragraph p, in order
ChunksOf(chunks, p) == SelectSeq(chunks, LAMBDA ch : ch.paragraph = p)

\* C25: every paragraph boundary forces a flush.  The chunks come paragraph
\* by paragraph; the parts that are not overlap of the chunks pushed in a
\* paragraph are exactly the words of that paragraph, so the buffer is empty
\* where the next paragraph begins and no chunk holds words of two
\* paragraphs; the first chunk of a paragraph has no overlap, and the overlap
\* of every other chunk is an end of the chunk before it in the same
\* paragraph.
C25_ParagraphBoundaryFlushes ==
  tk.pc = "chunked" =>
    LET paragraphs == tokenizeParagraphs(tk.text)
        chunks == tk.result
    IN /\ \A k \in DOMAIN chunks : chunks[k].paragraph \in DOMAIN paragraphs
       /\ \A k \in DOMAIN chunks : k > 1 => chunks[k - 1].paragraph <= chunks[k].paragraph
       /\ \A p \in DOMAIN paragraphs :
            LET mine == ChunksOf(chunks, p)
            IN /\ PendingWords(mine) = ParagraphWords(paragraphs[p])
               /\ mine # <<>>
               /\ mine[1].carry = <<>>
               /\ mine[Len(mine)].pending # <<>>
               /\ \A k \in 2..Len(mine) : IsSuffix(mine[k].carry, mine[k - 1].pending)

\* the two paragraphs with a size of 2 and an overlap of 1: the last chunk of
\* the first paragraph begins with an overlap, and the chunk of the second
\* paragraph is its one word and nothing else
C25_Witness ==
  /\ tk.pc = "chunked"
  /\ tk.text = TwoParagraphs
  /\ tk.maxChunkSize = 2 /\ tk.chunkOverlap = 1
  /\ Len(tk.result) = 3
  /\ tk.result[2].paragraph = 1 /\ tk.result[2].carry = << <<" ">> >>
  /\ tk.result[3] = [paragraph |-> 2, carry |-> <<>>, pending |-> << <<"a">> >>]

\* C26: chunk never pushes an empty chunk: the part that is not overlap of
\* every chunk holds a word, also when a word longer than maxChunkSize comes
\* while bufWords is empty.
C26_NoEmptyChunk ==
  tk.pc = "chunked" => \A k \in DOMAIN tk.result : tk.result[k].pending # <<>>

\* C27: during buildFromTexts the buffer (documents) never holds more than
\* BatchSize documents, and it is empty when the answer to an insertMany of
\* the loop has been taken, whatever the embedding requests and the
\* insertMany calls answered.
C27_BufferBounded ==
  /\ [](\A c \in Callers : call[c].op = "build" => Len(call[c].documents) <= BatchSize)
  /\ [][\A c \in Callers :
          (call[c].op = "build" /\ call[c].pc = "awaitInsertMid" /\ call'[c] # call[c]) =>
            call'[c].documents = <<>>]_vars

\* C28: when chunkOverlap >= 0 and no word of the text is longer than
\* maxChunkSize, every chunk is at most maxChunkSize + chunkOverlap
\* characters long and its part that is not overlap at most maxChunkSize.
C28_BoundWithoutLongWords ==
  (/\ tk.pc = "chunked"
   /\ tk.chunkOverlap >= 0
   /\ LongestWord(AllWords(tk.text)) <= tk.maxChunkSize) =>
    \A k \in DOMAIN tk.result :
      /\ Len(ChunkText(tk.result[k])) <= tk.maxChunkSize + tk.chunkOverlap
      /\ Len(formatWords(tk.result[k].pending)) <= tk.maxChunkSize

\* a text without a word longer than maxChunkSize one of whose chunks is
\* exactly maxChunkSize + chunkOverlap long, the overlap being two words
C28_Witness ==
  /\ tk.pc = "chunked"
  /\ tk.chunkOverlap >= 0
  /\ LongestWord(AllWords(tk.text)) <= tk.maxChunkSize
  /\ \E k \in DOMAIN tk.result :
       /\ Len(ChunkText(tk.result[k])) = tk.maxChunkSize + tk.chunkOverlap
       /\ Len(tk.result[k].carry) = 2
       /\ Len(formatWords(tk.result[k].pending)) = tk.maxChunkSize

\* C29: in every state of the connection module the client handle is set
\* exactly when the database handle is set, also while a connectToDatabase
\* call awaits and after a connect failed.
C29_ClientIffDb == (client # NULL) <=> (db # NULL)

\* the same with the states left out in which a connectToDatabase call awaits
\* client.connect(): what a failed connect leaves behind
C29_ClientIffDbAtRest ==
  (\A c \in Callers : call[c].pc # "awaitConnect") => ((client # NULL) <=> (db # NULL))

\* x is a beginning of y
IsPrefix(x, y) == Len(x) <= Len(y) /\ x = SubSeq(y, 1, Len(x))

\* C30: the index bootstrap runs in every buildFromTexts and cleanupByUid
\* call.  No call has the collection without the answer to its own
\* listIndexes, a listing or a failure; the listing a call works from is the
\* set of indexes at that moment, and the call asks for the first missing
\* name at once; the createIndex requests of a call are a beginning of the
\* names its listing lacks, all of them when the bootstrap met no failure;
\* and the step that meets a failure of listIndexes or createIndex asks for
\* no other index, nor does the call afterwards.
C30_BootstrapEveryCall ==
  /\ [](\A c \in Callers :
          /\ PastBootstrap(c) => (hist[c].indexErrors = 1 \/ IdIndex \in call[c].indexNames)
          /\ IsPrefix(hist[c].creates, MissingFrom(call[c].indexNames))
          /\ (PastBootstrap(c) /\ hist[c].indexErrors = 0) =>
               hist[c].creates = MissingFrom(call[c].indexNames)
          /\ hist[c].indexErrors > 0 =>
               call[c].pc \notin {"awaitListIndexes", "awaitCreateIndex"})
  /\ [][\A c \in Callers :
          /\ (call[c].pc = "awaitDb" /\ call'[c] # call[c]) =>
               \/ call'[c].pc = "awaitListIndexes"
               \/ call'[c].outcome = "raised"
          /\ (call[c].pc = "awaitListIndexes" /\ call'[c] # call[c]
              /\ hist'[c].indexErrors = hist[c].indexErrors) =>
               /\ call'[c].indexNames = indexes
               /\ MissingFrom(indexes) # <<>> =>
                    /\ call'[c].pc = "awaitCreateIndex"
                    /\ hist'[c].creates = <<MissingFrom(indexes)[1]>>
          /\ hist'[c].indexErrors > hist[c].indexErrors =>
               /\ hist'[c].creates = hist[c].creates
               /\ call'[c].pc # "awaitCreateIndex"]_vars

\* the second call of a run, on a collection whose first two indexes an
\* earlier bootstrap created before its third createIndex failed: it has
\* listed them and asked for the two names still missing, and all four exist
C30_Witness ==
  \E c \in Callers :
    /\ budget.builds = 0 /\ budget.cleanups = 0 /\ budget.faults = 0
    /\ PastBootstrap(c)
    /\ hist[c].indexErrors = 0
    /\ call[c].indexNames = {IdIndex, "uuid_1", "uid_1"}
    /\ hist[c].creates = <<"created_at_-1", "uid_1_created_at_-1">>
    /\ AllIndexes \subseteq indexes

====
